---- MODULE Spec2Model ----
(***************************************************************************)
(* A model of shorten.py: the shortcut optimizer (optimize) and the        *)
(* rewrite-graph construction and breadth-first search of shorten_optimal. *)
(* Strings are sequences of one-character strings; node ids are the        *)
(* 0-based integers that DAG.add_node assigns.                             *)
(***************************************************************************)
EXTENDS Integers, Sequences, FiniteSets, TLC

VARIABLES
    string,      \* shorten_optimal: the target string
    lookup,      \* shorten_optimal: the optimized index, in dict order
    g,           \* the DAG: nodes, edges_to, edges_from
    start,       \* id of the start sentinel
    end,         \* id of the end sentinel
    char_nodes,  \* ids of the nodes of the characters of the target
    last,        \* the last node of the chain built so far
    ki,          \* position of the loop over lookup.items()
    n,           \* the node added last (character or shortcut node)
    start_pos,   \* where string.find resumes
    pred,        \* search: predecessor of every reached node
    dist,        \* search: edge count of every reached node
    q,           \* search: the queue
    current,     \* the node dequeued last / the node of the path walk
    path,        \* the reconstructed path
    result,      \* the returned string
    pc,          \* position of shorten_optimal
    reverse,     \* optimize: its argument, the reverse index, in dict order
    optimized,   \* optimize: the dict it builds, in dict order
    oi,          \* optimize: position of the loop over lookup.items()
    oj,          \* optimize: position of the loop over shortcuts
    opc,         \* position of optimize
    returned,    \* the caller of optimize: the dicts returned so far
    table,       \* parse_table: the table text, as its lines
    lines,       \* parse_table: the lines after the header is stripped
    li,          \* parse_table: position of the loop over lines
    entries,     \* parse_table: the dict it builds
    ppc          \* position of parse_table

vars == <<string, lookup, g, start, end, char_nodes, last, ki, n, start_pos,
          pred, dist, q, current, path, result, pc,
          reverse, optimized, oi, oj, opc, returned,
          table, lines, li, entries, ppc>>

shortenVars == <<string, lookup, g, start, end, char_nodes, last, ki, n,
                 start_pos, pred, dist, q, current, path, result, pc>>

optimizeVars == <<reverse, optimized, oi, oj, opc, returned>>

parseVars == <<table, lines, li, entries, ppc>>

----------------------------------------------------------------------------
(* Bounds of the model. *)

MaxLen == 4        \* longest target string over Alphabet
MaxKeys == 2       \* most keys of the optimized index
MaxQueue == 24     \* the search is followed while the queue is this short

MaxShortcuts == 2  \* longest shortcut list of the reverse index
MaxLongs == 2      \* most keys of the reverse index

MaxLines == 2      \* most lines of a table after its first HeaderLines lines
MaxCalls == 2      \* most calls of optimize on one reverse index

Alphabet == {"a", "b"}

\* The example target of the specification, "cabcabc".
ExampleTargets == { <<"c", "a", "b", "c", "a", "b", "c">> }

\* The tie list of the key at each position of the index; a shortcut is a
\* single code point, and no code point maps to two outputs.
ShortcutLists ==
    << << <<"x">>, <<"w">> >>, << <<"y">> >>, << <<"z">> >>, << <<"v">> >> >>

StringsUpTo(S, k) == UNION { [1..m -> S] : m \in 0..k }

Targets == StringsUpTo(Alphabet, MaxLen) \cup ExampleTargets

\* The keys an optimized index is drawn from. A key is longer than its
\* one-character shortcuts; some of these overlap themselves ("aa", "aba"),
\* some do not.
Keys ==
    { <<"a", "a">>, <<"a", "b">>, <<"b", "a">>, <<"b", "b">>,
      <<"a", "a", "a">>, <<"a", "a", "b">>, <<"a", "b", "a">> }

\* Indexes whose shortcuts are strings of several characters: a target of
\* four characters, the whole of it kept under a shortcut of three characters
\* and its first three characters under a shortcut of one, in either order.
LongShortcut == <<"p", "q", "r">>

TokenTargets == [1..4 -> Alphabet]

TokenIndexes(s) ==
    LET whole == [long |-> s, shortcuts |-> <<LongShortcut>>]
        front == [long |-> SubSeq(s, 1, 3), shortcuts |-> << <<"x">> >>]
    IN { <<whole, front>>, <<front, whole>> }

\* The tied shortcuts a caller may put after the first one of a key.
OtherTies == { <<>>, << <<"w">> >>, << <<"u">> >> }

KeyLists ==
    { f \in UNION { [1..m -> Keys] : m \in 0..MaxKeys } :
        \A i, j \in DOMAIN f : i # j => f[i] # f[j] }

Indexes ==
    { [i \in DOMAIN ks |-> [long |-> ks[i], shortcuts |-> ShortcutLists[i]]] :
        ks \in KeyLists }

\* The outputs and the sources a reverse index is drawn from; the sources
\* have several lengths, so that the comparisons of optimize all matter.
Longs == << <<"a", "b", "c">>, <<"a", "b">>, <<"a">>, <<"b">> >>

Sources == { <<"x">>, <<"x", "y">>, <<"y", "x">> }

SourceLists == UNION { [1..m -> Sources] : m \in 1..MaxShortcuts }

ReverseIndexes ==
    { [i \in DOMAIN sl |-> [long |-> Longs[i], shortcuts |-> sl[i]]] :
        sl \in UNION { [1..m -> SourceLists] : m \in 0..MaxLongs } }

\* A line of the table text, by its fields: the code point or the range
\* (hexadecimal codes, each a sequence of digits), the status, the output
\* codes (none when the line has no output field) and the text after '#'.
\* A comment line and a blank line have no code point field.
Line(chars, state, mapping, comment) ==
    [chars |-> chars, state |-> state, mapping |-> mapping,
     comment |-> comment]

Hex(a, b, c, d) == <<a, b, c, d>>

CommentLine == Line(<<>>, "", <<>>, "IdnaMappingTable.txt")

BlankLine == Line(<<>>, "", <<>>, "")

\* 0041 ; mapped ; 0061 # A
SingleLine ==
    Line(<<Hex("0", "0", "4", "1")>>, "mapped", <<Hex("0", "0", "6", "1")>>,
         "A")

\* 0042..0043 ; mapped ; 0062 0063 # B..C
RangeLine ==
    Line(<<Hex("0", "0", "4", "2"), Hex("0", "0", "4", "3")>>, "mapped",
         <<Hex("0", "0", "6", "2"), Hex("0", "0", "6", "3")>>, "B..C")

\* 00DF ; deviation ; 0073 0073 # sharp s
DeviationLine ==
    Line(<<Hex("0", "0", "D", "F")>>, "deviation",
         <<Hex("0", "0", "7", "3"), Hex("0", "0", "7", "3")>>, "sharp s")

\* 0045 ; mapped ; 00G1 # E: an output code that is no hexadecimal number
BadDigitLine ==
    Line(<<Hex("0", "0", "4", "5")>>, "mapped", <<Hex("0", "0", "G", "1")>>,
         "E")

\* 0046 ; mapped ; 110000 # F: an output code beyond the last code point
BeyondLine ==
    Line(<<Hex("0", "0", "4", "6")>>, "mapped",
         << <<"1", "1", "0", "0", "0", "0">> >>, "F")

\* 0047 ; mapped # G: a mapped line without an output field
NoOutputLine == Line(<<Hex("0", "0", "4", "7")>>, "mapped", <<>>, "G")

\* 0048 ; mapped ; 0068 # H
EarlyLine ==
    Line(<<Hex("0", "0", "4", "8")>>, "mapped", <<Hex("0", "0", "6", "8")>>,
         "H")

\* The lines the text after the header is drawn from; no code point is the
\* source of two of them.
LinePool ==
    { CommentLine, BlankLine, SingleLine, RangeLine, DeviationLine,
      BadDigitLine, BeyondLine, NoOutputLine }

Bodies == UNION { [1..m -> LinePool] : m \in 0..MaxLines }

----------------------------------------------------------------------------
(* Python values. *)

None == <<"None">>      \* Node.value of the two sentinels
NoneId == -1            \* None where a node is expected
NotFound == -1          \* str.find: no occurrence

\* str.find(sub, from): the lowest 0-based index >= from where sub occurs.
Occurs(s, sub, p) ==
    /\ p >= 0
    /\ p + Len(sub) <= Len(s)
    /\ \A i \in 1..Len(sub) : s[p + i] = sub[i]

find(s, sub, from) ==
    IF \E p \in from..Len(s) : Occurs(s, sub, p)
    THEN CHOOSE p \in from..Len(s) :
             /\ Occurs(s, sub, p)
             /\ \A r \in from..(p - 1) : ~Occurs(s, sub, r)
    ELSE NotFound

\* dict[key] = value on a dict modelled as a function.
Put(d, k, v) == [x \in DOMAIN d \cup {k} |-> IF x = k THEN v ELSE d[x]]

EmptyDict == [x \in {} |-> 0]

----------------------------------------------------------------------------
(* class DAG *)

NewDAG == [nodes |-> <<>>, edges_to |-> EmptyDict, edges_from |-> EmptyDict]

\* add_node: the new node's id is len(nodes) - 1 after the append.
add_node(gr, value) == [gr EXCEPT !.nodes = Append(@, value)]

NewId(gr) == Len(gr.nodes)

\* A slip of add_edge: the list of successors is replaced, not appended to.
add_edge_replacing(gr, node_from, node_to) ==
    [gr EXCEPT
       !.edges_from = Put(@, node_from, <<node_to>>),
       !.edges_to = Put(@, node_to,
                        Append(IF node_to \in DOMAIN @ THEN @[node_to]
                               ELSE <<>>, node_from))]

add_edge(gr, node_from, node_to) ==
    [gr EXCEPT
       !.edges_from = Put(@, node_from,
                          Append(IF node_from \in DOMAIN @ THEN @[node_from]
                                 ELSE <<>>, node_to)),
       !.edges_to = Put(@, node_to,
                        Append(IF node_to \in DOMAIN @ THEN @[node_to]
                               ELSE <<>>, node_from))]

predecessors(gr, node) ==
    IF node \in DOMAIN gr.edges_to THEN gr.edges_to[node] ELSE <<>>

successors(gr, node) ==
    IF node \in DOMAIN gr.edges_from THEN gr.edges_from[node] ELSE <<>>

Value(gr, id) == gr.nodes[id + 1]

----------------------------------------------------------------------------
(* shorten_optimal: graph construction *)

\* for from_node in predecessors(start_node): for to_node in
\* successors(end_node): add_edge(from_node, n); add_edge(n, to_node)
RECURSIVE InsertInner(_, _, _, _, _)
InsertInner(gr, from_node, tos, j, node) ==
    IF j > Len(tos) THEN gr
    ELSE InsertInner(add_edge(add_edge(gr, from_node, node), node, tos[j]),
                     from_node, tos, j + 1, node)

RECURSIVE InsertOuter(_, _, _, _, _)
InsertOuter(gr, froms, i, end_node, node) ==
    IF i > Len(froms) THEN gr
    ELSE InsertOuter(InsertInner(gr, froms[i], successors(gr, end_node), 1,
                                 node),
                     froms, i + 1, end_node, node)

InsertOccurrence(gr, pos, long, node) ==
    LET start_node == char_nodes[pos + 1]
        end_node == char_nodes[pos + Len(long)]
    IN InsertOuter(gr, predecessors(gr, start_node), 1, end_node, node)

\* shortcut = shortcuts[0]
\* A slip of shortcuts[0]: shortcuts[-1], the last of the tied shortcuts.
SelectShortcutLast(shortcuts) == shortcuts[Len(shortcuts)]

\* shortcut = shortcuts[0]
SelectShortcut(shortcuts) == shortcuts[1]

\* A slip of g.add_node(char): the whole target instead of the character.
CharValueWholeString(s, i) == s

\* The value of the node of the i-th character: g.add_node(char)
CharValue(s, i) == <<s[i]>>

InitShorten ==
    /\ string \in Targets
    /\ lookup \in Indexes
    /\ g = NewDAG
    /\ start = NoneId
    /\ end = NoneId
    /\ char_nodes = <<>>
    /\ last = NoneId
    /\ ki = 1
    /\ n = NoneId
    /\ start_pos = 0
    /\ pred = EmptyDict
    /\ dist = EmptyDict
    /\ q = <<>>
    /\ current = NoneId
    /\ path = <<>>
    /\ result = None
    /\ pc = "start"

OptimizeIdle ==
    /\ reverse = <<>>
    /\ optimized = <<>>
    /\ oi = 1
    /\ oj = 1
    /\ opc = "idle"
    /\ returned = <<>>

ParseIdle ==
    /\ table = <<>>
    /\ lines = <<>>
    /\ li = 1
    /\ entries = EmptyDict
    /\ ppc = "idle"

Init == InitShorten /\ OptimizeIdle /\ ParseIdle

\* start = g.add_node()
InsertStart ==
    /\ pc = "start"
    /\ g' = add_node(g, None)
    /\ start' = NewId(g)
    /\ last' = NewId(g)
    /\ pc' = "chars"
    /\ UNCHANGED <<string, lookup, end, char_nodes, ki, n, start_pos, pred,
                   dist, q, current, path, result>>
    /\ UNCHANGED optimizeVars
    /\ UNCHANGED parseVars

\* one iteration of: for char in string
InsertChar ==
    /\ pc = "chars"
    /\ Len(char_nodes) < Len(string)
    /\ LET char == CharValue(string, Len(char_nodes) + 1)
           id == NewId(g)
       IN /\ g' = add_edge(add_node(g, char), last, id)
          /\ n' = id
          /\ char_nodes' = Append(char_nodes, id)
          /\ last' = id
    /\ UNCHANGED <<string, lookup, start, end, ki, start_pos, pred, dist, q,
                   current, path, result, pc>>
    /\ UNCHANGED optimizeVars
    /\ UNCHANGED parseVars

\* A slip of InsertEnd: the edge to end is added only after a character.
InsertEndAfterCharOnly ==
    /\ pc = "chars"
    /\ Len(char_nodes) = Len(string)
    /\ g' = IF char_nodes = <<>> THEN add_node(g, None)
            ELSE add_edge(add_node(g, None), last, NewId(g))
    /\ end' = NewId(g)
    /\ ki' = 1
    /\ pc' = "shortcuts"
    /\ UNCHANGED <<string, lookup, start, char_nodes, last, n, start_pos,
                   pred, dist, q, current, path, result>>
    /\ UNCHANGED optimizeVars
    /\ UNCHANGED parseVars

\* end = g.add_node(); g.add_edge(last, end)
InsertEnd ==
    /\ pc = "chars"
    /\ Len(char_nodes) = Len(string)
    /\ g' = add_edge(add_node(g, None), last, NewId(g))
    /\ end' = NewId(g)
    /\ ki' = 1
    /\ pc' = "shortcuts"
    /\ UNCHANGED <<string, lookup, start, char_nodes, last, n, start_pos,
                   pred, dist, q, current, path, result>>
    /\ UNCHANGED optimizeVars
    /\ UNCHANGED parseVars

\* A slip of shortcut = shortcuts[0]: shortcuts.pop(0), which takes the
\* shortcut out of the caller's index.
InsertShortcutPop ==
    /\ pc = "shortcuts"
    /\ ki <= Len(lookup)
    /\ g' = add_node(g, SelectShortcut(lookup[ki].shortcuts))
    /\ lookup' = [lookup EXCEPT ![ki].shortcuts = Tail(@)]
    /\ n' = NewId(g)
    /\ start_pos' = 0
    /\ pc' = "occurrences"
    /\ UNCHANGED <<string, start, end, char_nodes, last, ki, pred,
                   dist, q, current, path, result>>
    /\ UNCHANGED optimizeVars
    /\ UNCHANGED parseVars

\* one iteration of: for long, shortcuts in lookup.items(), up to the
\* occurrence loop
InsertShortcut ==
    /\ pc = "shortcuts"
    /\ ki <= Len(lookup)
    /\ g' = add_node(g, SelectShortcut(lookup[ki].shortcuts))
    /\ n' = NewId(g)
    /\ start_pos' = 0
    /\ pc' = "occurrences"
    /\ UNCHANGED <<string, lookup, start, end, char_nodes, last, ki, pred,
                   dist, q, current, path, result>>
    /\ UNCHANGED optimizeVars
    /\ UNCHANGED parseVars

\* one iteration of the occurrence loop: while True
CheckOccurrence ==
    /\ pc = "occurrences"
    /\ LET long == lookup[ki].long
           pos == find(string, long, start_pos)
       IN IF pos = NotFound
          THEN /\ start_pos' = pos
               /\ ki' = ki + 1
               /\ pc' = "shortcuts"
               /\ g' = g
          ELSE /\ g' = InsertOccurrence(g, pos, long, n)
               /\ start_pos' = pos + 1
               /\ UNCHANGED <<ki, pc>>
    /\ UNCHANGED <<string, lookup, start, end, char_nodes, last, n, pred,
                   dist, q, current, path, result>>
    /\ UNCHANGED optimizeVars
    /\ UNCHANGED parseVars

----------------------------------------------------------------------------
(* shorten_optimal: the search *)

\* A slip of the search: a later visit of a reached node overwrites what was
\* recorded.
VisitOverwrite(st, cur, succ) ==
    LET distance == st.dist[cur] + 1
    IN [dist |-> Put(st.dist, succ, distance),
        pred |-> Put(st.pred, succ, cur),
        q |-> Append(st.q, succ)]

\* A slip of the search: `distance <= dist[succ]`, so that a visit at an equal
\* distance overwrites the predecessor.
VisitOnTie(st, cur, succ) ==
    LET distance == st.dist[cur] + 1
    IN IF succ \in DOMAIN st.dist
       THEN IF distance <= st.dist[succ]
            THEN [dist |-> Put(st.dist, succ, distance),
                  pred |-> Put(st.pred, succ, cur),
                  q |-> Append(st.q, succ)]
            ELSE [st EXCEPT !.q = Append(@, succ)]
       ELSE [dist |-> Put(st.dist, succ, distance),
             pred |-> Put(st.pred, succ, cur),
             q |-> Append(st.q, succ)]

\* The body of: for succ in g.successors(current), on the search state
\* st = [dist, pred, q].
Visit(st, cur, succ) ==
    LET distance == st.dist[cur] + 1
    IN IF succ \in DOMAIN st.dist
       THEN IF distance < st.dist[succ]
            THEN [dist |-> Put(st.dist, succ, distance),
                  pred |-> Put(st.pred, succ, cur),
                  q |-> Append(st.q, succ)]
            ELSE [st EXCEPT !.q = Append(@, succ)]
       ELSE [dist |-> Put(st.dist, succ, distance),
             pred |-> Put(st.pred, succ, cur),
             q |-> Append(st.q, succ)]

RECURSIVE VisitAll(_, _, _, _)
VisitAll(st, cur, succs, i) ==
    IF i > Len(succs) THEN st
    ELSE VisitAll(Visit(st, cur, succs[i]), cur, succs, i + 1)

\* pred = {start: None}; dist = {start: 0}; q = [start]
Prepare ==
    /\ pc = "shortcuts"
    /\ ki > Len(lookup)
    /\ pred' = Put(EmptyDict, start, NoneId)
    /\ dist' = Put(EmptyDict, start, 0)
    /\ q' = <<start>>
    /\ pc' = "search"
    /\ UNCHANGED <<string, lookup, g, start, end, char_nodes, last, ki, n,
                   start_pos, current, path, result>>
    /\ UNCHANGED optimizeVars
    /\ UNCHANGED parseVars

\* one iteration of: while len(q) > 0. The code puts no limit on the queue;
\* the model stops following a search whose queue has outgrown MaxQueue,
\* which within the bounds happens only in searches that never end.
FindShortestPath ==
    /\ pc = "search"
    /\ Len(q) > 0
    /\ Len(q) <= MaxQueue
    /\ LET cur == Head(q)
           st == VisitAll([dist |-> dist, pred |-> pred, q |-> Tail(q)],
                          cur, successors(g, cur), 1)
       IN /\ current' = cur
          /\ dist' = st.dist
          /\ pred' = st.pred
          /\ q' = st.q
    /\ UNCHANGED <<string, lookup, g, start, end, char_nodes, last, ki, n,
                   start_pos, path, result, pc>>
    /\ UNCHANGED optimizeVars
    /\ UNCHANGED parseVars

\* the queue is empty: path = []; current = end
BeginReconstruct ==
    /\ pc = "search"
    /\ Len(q) = 0
    /\ path' = <<>>
    /\ current' = end
    /\ pc' = "reconstruct"
    /\ UNCHANGED <<string, lookup, g, start, end, char_nodes, last, ki, n,
                   start_pos, pred, dist, q, result>>
    /\ UNCHANGED optimizeVars
    /\ UNCHANGED parseVars

\* one iteration of: while current is not None; pred[current] of a node
\* that was never reached raises KeyError
ReconstructPath ==
    /\ pc = "reconstruct"
    /\ current # NoneId
    /\ IF current \in DOMAIN pred
       THEN /\ path' = <<current>> \o path
            /\ current' = pred[current]
            /\ pc' = pc
       ELSE /\ path' = <<current>> \o path
            /\ pc' = "KeyError"
            /\ UNCHANGED current
    /\ UNCHANGED <<string, lookup, g, start, end, char_nodes, last, ki, n,
                   start_pos, pred, dist, q, result>>
    /\ UNCHANGED optimizeVars
    /\ UNCHANGED parseVars

\* A slip of path[1:-1]: path[2:-1].
InnerFromSecond(p) == SubSeq(p, 3, Len(p) - 1)

\* path[1:-1]
Inner(p) == SubSeq(p, 2, Len(p) - 1)

\* ''.join(n.value for n in nodes)
RECURSIVE Join(_, _)
Join(gr, ids) ==
    IF ids = <<>> THEN <<>> ELSE Value(gr, Head(ids)) \o Join(gr, Tail(ids))

\* return ''.join(n.value for n in path[1:-1])
Return ==
    /\ pc = "reconstruct"
    /\ current = NoneId
    /\ result' = Join(g, Inner(path))
    /\ pc' = "done"
    /\ UNCHANGED <<string, lookup, g, start, end, char_nodes, last, ki, n,
                   start_pos, pred, dist, q, current, path>>
    /\ UNCHANGED optimizeVars
    /\ UNCHANGED parseVars

Next ==
    \/ InsertStart
    \/ InsertChar
    \/ InsertEnd
    \/ InsertShortcut
    \/ CheckOccurrence
    \/ Prepare
    \/ FindShortestPath
    \/ BeginReconstruct
    \/ ReconstructPath
    \/ Return

Spec == Init /\ [][Next]_vars

\* shorten_optimal runs on one thread and nothing suspends it: whenever it
\* has a next step it takes it.
LiveSpec == Spec /\ WF_vars(Next)

\* shorten_optimal called with an index of Indexes, or with one whose
\* shortcuts are strings of several characters.
InitTokens ==
    \/ Init
    \/ /\ string \in TokenTargets
       /\ lookup \in TokenIndexes(string)
       /\ g = NewDAG
       /\ start = NoneId
       /\ end = NoneId
       /\ char_nodes = <<>>
       /\ last = NoneId
       /\ ki = 1
       /\ n = NoneId
       /\ start_pos = 0
       /\ pred = EmptyDict
       /\ dist = EmptyDict
       /\ q = <<>>
       /\ current = NoneId
       /\ path = <<>>
       /\ result = None
       /\ pc = "start"
       /\ OptimizeIdle
       /\ ParseIdle

SpecTokens == InitTokens /\ [][Next]_vars

----------------------------------------------------------------------------
(* Callers of shorten_optimal that reuse the index. *)

\* A call of shorten_optimal starts with fresh locals; the caller passes
\* the index as the call before left it.
NewRequest(target, index) ==
    /\ string' = target
    /\ lookup' = index
    /\ g' = NewDAG
    /\ start' = NoneId
    /\ end' = NoneId
    /\ char_nodes' = <<>>
    /\ last' = NoneId
    /\ ki' = 1
    /\ n' = NoneId
    /\ start_pos' = 0
    /\ pred' = EmptyDict
    /\ dist' = EmptyDict
    /\ q' = <<>>
    /\ current' = NoneId
    /\ path' = <<>>
    /\ pc' = "start"
    /\ UNCHANGED optimizeVars
    /\ UNCHANGED parseVars

\* The caller shortens another target against the same index object; when
\* it repeats the target it keeps the string it got before, to compare.
Again ==
    /\ pc = "done"
    /\ \E target \in Targets :
          /\ NewRequest(target, lookup)
          /\ result' = IF target = string THEN result ELSE None

NextReuse == Next \/ Again

\* The caller of shorten_optimal changes the shortcuts tied after the first
\* one of a key of the index, and repeats the request.
AgainOtherTies ==
    /\ pc = "done"
    /\ lookup \in Indexes
    /\ \E k \in DOMAIN lookup, ties \in OtherTies :
          LET index == [lookup EXCEPT
                          ![k].shortcuts = <<Head(@)>> \o ties]
          IN /\ index # lookup
             /\ NewRequest(string, index)
             /\ UNCHANGED result

NextTies == Next \/ AgainOtherTies

SpecTies == Init /\ [][NextTies]_vars

SpecReuse == Init /\ [][NextReuse]_vars

----------------------------------------------------------------------------
(* optimize *)

\* A dict from strings to lists is a sequence of [long, shortcuts] records
\* in insertion order.
Has(d, long) == \E i \in DOMAIN d : d[i].long = long

Get(d, long) == d[CHOOSE i \in DOMAIN d : d[i].long = long].shortcuts

Set(d, long, list) ==
    IF Has(d, long)
    THEN [i \in DOMAIN d |->
            IF d[i].long = long THEN [d[i] EXCEPT !.shortcuts = list]
            ELSE d[i]]
    ELSE Append(d, [long |-> long, shortcuts |-> list])

\* A slip of optimize: a shorter shortcut is appended to the list instead of
\* replacing it.
KeepShortestNoReset(opt, long, shortcut) ==
    IF Len(shortcut) < Len(long)
    THEN IF ~Has(opt, long)
         THEN Set(opt, long, <<shortcut>>)
         ELSE IF Len(shortcut) <= Len(Get(opt, long)[1])
              THEN Set(opt, long, Append(Get(opt, long), shortcut))
              ELSE opt
    ELSE opt

\* The body of: for shortcut in shortcuts
KeepShortest(opt, long, shortcut) ==
    IF Len(shortcut) < Len(long)
    THEN IF ~Has(opt, long) \/ Len(shortcut) < Len(Get(opt, long)[1])
         THEN Set(opt, long, <<shortcut>>)
         ELSE IF Len(shortcut) = Len(Get(opt, long)[1])
              THEN Set(opt, long, Append(Get(opt, long), shortcut))
              ELSE opt
    ELSE opt

ShortenIdle ==
    /\ string = <<>>
    /\ lookup = <<>>
    /\ g = NewDAG
    /\ start = NoneId
    /\ end = NoneId
    /\ char_nodes = <<>>
    /\ last = NoneId
    /\ ki = 1
    /\ n = NoneId
    /\ start_pos = 0
    /\ pred = EmptyDict
    /\ dist = EmptyDict
    /\ q = <<>>
    /\ current = NoneId
    /\ path = <<>>
    /\ result = None
    /\ pc = "idle"

InitOptimize ==
    /\ reverse \in ReverseIndexes
    /\ optimized = <<>>
    /\ oi = 1
    /\ oj = 1
    /\ opc = "run"
    /\ returned = <<>>
    /\ ShortenIdle
    /\ ParseIdle

\* one iteration of: for shortcut in shortcuts
OptimizeShortcut ==
    /\ opc = "run"
    /\ oi <= Len(reverse)
    /\ oj <= Len(reverse[oi].shortcuts)
    /\ optimized' = KeepShortest(optimized, reverse[oi].long,
                                 reverse[oi].shortcuts[oj])
    /\ oj' = oj + 1
    /\ UNCHANGED <<reverse, oi, opc, returned>>
    /\ UNCHANGED shortenVars
    /\ UNCHANGED parseVars

\* the shortcuts of one key are exhausted: the next (long, shortcuts) item
OptimizeNextLong ==
    /\ opc = "run"
    /\ oi <= Len(reverse)
    /\ oj > Len(reverse[oi].shortcuts)
    /\ oi' = oi + 1
    /\ oj' = 1
    /\ UNCHANGED <<reverse, optimized, opc, returned>>
    /\ UNCHANGED shortenVars
    /\ UNCHANGED parseVars

\* return optimized
OptimizeReturn ==
    /\ opc = "run"
    /\ oi > Len(reverse)
    /\ opc' = "done"
    /\ returned' = Append(returned, optimized)
    /\ UNCHANGED <<reverse, optimized, oi, oj>>
    /\ UNCHANGED shortenVars
    /\ UNCHANGED parseVars

NextOptimize == OptimizeShortcut \/ OptimizeNextLong \/ OptimizeReturn

SpecOptimize == InitOptimize /\ [][NextOptimize]_vars

\* A slip of optimize: the dict of the call before is kept and filled again.
OptimizeAgainKeepDict ==
    /\ opc = "done"
    /\ Len(returned) < MaxCalls
    /\ optimized' = optimized
    /\ oi' = 1
    /\ oj' = 1
    /\ opc' = "run"
    /\ UNCHANGED <<reverse, returned>>
    /\ UNCHANGED shortenVars
    /\ UNCHANGED parseVars

\* optimize is called once more with the same reverse index: optimized = {}
OptimizeAgain ==
    /\ opc = "done"
    /\ Len(returned) < MaxCalls
    /\ optimized' = <<>>
    /\ oi' = 1
    /\ oj' = 1
    /\ opc' = "run"
    /\ UNCHANGED <<reverse, returned>>
    /\ UNCHANGED shortenVars
    /\ UNCHANGED parseVars

NextOptimizeTwice == NextOptimize \/ OptimizeAgain

SpecOptimizeTwice == InitOptimize /\ [][NextOptimizeTwice]_vars

----------------------------------------------------------------------------
(* parse_table *)

HeaderLines == 11          \* lines = lines[11:]
MaxCodePoint == 1114111    \* chr(i) raises ValueError beyond 0x10FFFF

\* The first lines of a text: the header of the published table (comment
\* lines only), a header whose last line is a mapped line, and no header.
CommentHeader == [i \in 1..HeaderLines |-> CommentLine]

Headers ==
    { CommentHeader, [CommentHeader EXCEPT ![HeaderLines] = EarlyLine], <<>> }

Tables == { h \o b : h \in Headers, b \in Bodies }

DigitValue ==
    [d \in {"0", "1", "2", "3", "4", "5", "6", "7", "8", "9",
            "A", "B", "C", "D", "E", "F"} |->
        CASE d = "0" -> 0 [] d = "1" -> 1 [] d = "2" -> 2 [] d = "3" -> 3
          [] d = "4" -> 4 [] d = "5" -> 5 [] d = "6" -> 6 [] d = "7" -> 7
          [] d = "8" -> 8 [] d = "9" -> 9 [] d = "A" -> 10 [] d = "B" -> 11
          [] d = "C" -> 12 [] d = "D" -> 13 [] d = "E" -> 14 [] d = "F" -> 15]

\* [0-9A-F]{4,}
WellFormed(code) ==
    Len(code) >= 4 /\ \A i \in DOMAIN code : code[i] \in DOMAIN DigitValue

\* int(code, 16)
RECURSIVE Int16(_)
Int16(code) ==
    IF code = <<>> THEN 0
    ELSE 16 * Int16(SubSeq(code, 1, Len(code) - 1))
         + DigitValue[code[Len(code)]]

\* re.match: the line has a well-formed code point or range, a status,
\* either no output field or one of well-formed codes, and a '#' with text
\* after it.
Matches(line) ==
    /\ Len(line.chars) \in {1, 2}
    /\ \A i \in DOMAIN line.chars : WellFormed(line.chars[i])
    /\ line.state # ""
    /\ \A j \in DOMAIN line.mapping : WellFormed(line.mapping[j])
    /\ line.comment # ""

\* match.groups()[2] of a line without an output field: None
NoGroup == <<>>

\* The code points of the first group: one, or range(start, end + 1).
CodePoints(chars) ==
    IF Len(chars) = 2
    THEN [i \in 1..(Int16(chars[2]) - Int16(chars[1]) + 1) |->
            Int16(chars[1]) + i - 1]
    ELSE <<Int16(chars[1])>>

\* ''.join([code2unicode(code) for code in mapping])
Decode(mapping) == [j \in DOMAIN mapping |-> Int16(mapping[j])]

RECURSIVE PutAll(_, _, _)
PutAll(ents, cps, value) ==
    IF cps = <<>> THEN ents
    ELSE PutAll(Put(ents, Head(cps), value), Tail(cps), value)

\* The body of the loop for a matched line of status "mapped": the dict
\* afterwards and the exception raised, if any.
ParseMapped(line, ents) ==
    LET cps == CodePoints(line.chars)
    IN IF \E i \in DOMAIN cps : cps[i] > MaxCodePoint
       THEN [entries |-> ents, raised |-> "ValueError"]
       ELSE IF line.mapping = NoGroup
       THEN [entries |-> ents, raised |-> "AttributeError"]
       ELSE IF cps = <<>>
       THEN [entries |-> ents, raised |-> ""]
       ELSE IF \E j \in DOMAIN line.mapping :
                  Int16(line.mapping[j]) > MaxCodePoint
       THEN [entries |-> ents, raised |-> "ValueError"]
       ELSE [entries |-> PutAll(ents, cps, Decode(line.mapping)),
             raised |-> ""]

\* lines[11:]
StripHeader(ls) == SubSeq(ls, HeaderLines + 1, Len(ls))

InitParse ==
    /\ table \in Tables
    /\ lines = <<>>
    /\ li = 1
    /\ entries = EmptyDict
    /\ ppc = "start"
    /\ ShortenIdle
    /\ OptimizeIdle

\* lines = table.split('\n'); lines = lines[11:]; entries = {}
ParseStart ==
    /\ ppc = "start"
    /\ lines' = StripHeader(table)
    /\ li' = 1
    /\ entries' = EmptyDict
    /\ ppc' = "lines"
    /\ UNCHANGED table
    /\ UNCHANGED shortenVars
    /\ UNCHANGED optimizeVars

\* one iteration of: for line in lines
ParseLine ==
    /\ ppc = "lines"
    /\ li <= Len(lines)
    /\ LET line == lines[li]
       IN IF ~Matches(line) \/ line.state # "mapped"
          THEN /\ UNCHANGED <<entries, ppc>>
               /\ li' = li + 1
          ELSE LET r == ParseMapped(line, entries)
               IN /\ entries' = r.entries
                  /\ IF r.raised = ""
                     THEN li' = li + 1 /\ ppc' = ppc
                     ELSE li' = li /\ ppc' = r.raised
    /\ UNCHANGED <<table, lines>>
    /\ UNCHANGED shortenVars
    /\ UNCHANGED optimizeVars

\* return entries
ParseReturn ==
    /\ ppc = "lines"
    /\ li > Len(lines)
    /\ ppc' = "done"
    /\ UNCHANGED <<table, lines, li, entries>>
    /\ UNCHANGED shortenVars
    /\ UNCHANGED optimizeVars

NextParse == ParseStart \/ ParseLine \/ ParseReturn

SpecParse == InitParse /\ [][NextParse]_vars

----------------------------------------------------------------------------
(* What the claims speak of. *)

Ids(gr) == 0..(Len(gr.nodes) - 1)

Range(f) == { f[i] : i \in DOMAIN f }

SuccSet(gr, v) == Range(successors(gr, v))

PredSet(gr, v) == Range(predecessors(gr, v))

RECURSIVE Closure(_, _)
Closure(gr, S) ==
    LET T == S \cup UNION { SuccSet(gr, v) : v \in S }
    IN IF T = S THEN S ELSE Closure(gr, T)

\* A directed cycle (a self-loop included) through some node.
HasCycle(gr) == \E v \in Ids(gr) : v \in Closure(gr, SuccSet(gr, v))

\* The graph is complete: every shortcut has been inserted.
Constructed == pc \in {"search", "reconstruct", "done", "KeyError"}

\* The 0-based positions where a key occurs in the target.
Occurrences(s, long) == { p \in 0..Len(s) : Occurs(s, long, p) }

NoKeyOccurs == \A i \in DOMAIN lookup : Occurrences(string, lookup[i].long) = {}

\* The mapped relation of the index: every shortcut of a key maps to the
\* key, any other code point to itself.
MapChar(idx, c) ==
    IF \E i \in DOMAIN idx : <<c>> \in Range(idx[i].shortcuts)
    THEN idx[CHOOSE i \in DOMAIN idx : <<c>> \in Range(idx[i].shortcuts)].long
    ELSE <<c>>

RECURSIVE MapStep(_, _)
MapStep(idx, s) ==
    IF s = <<>> THEN <<>> ELSE MapChar(idx, Head(s)) \o MapStep(idx, Tail(s))

RECURSIVE Normalize(_, _)
Normalize(idx, s) ==
    LET t == MapStep(idx, s) IN IF t = s THEN s ELSE Normalize(idx, t)

Min(S) == CHOOSE m \in S : \A x \in S : m <= x

\* The fewest segments of a partition of s[p..] into kept characters and
\* occurrences of index keys.
RECURSIVE MinSegments(_, _, _)
MinSegments(s, idx, p) ==
    IF p >= Len(s) THEN 0
    ELSE 1 + Min({ MinSegments(s, idx, p + 1) } \cup
                 { MinSegments(s, idx, p + Len(idx[i].long)) :
                     i \in { j \in DOMAIN idx : Occurs(s, idx[j].long, p) } })

\* s with the occurrences of long, taken from the left without overlap,
\* replaced by shortcut.
RECURSIVE ReplaceAll(_, _, _, _)
ReplaceAll(s, long, shortcut, p) ==
    IF p >= Len(s) THEN <<>>
    ELSE IF Occurs(s, long, p)
         THEN shortcut \o ReplaceAll(s, long, shortcut, p + Len(long))
         ELSE <<s[p + 1]>> \o ReplaceAll(s, long, shortcut, p + 1)

\* The target with every occurrence of the one key of the index replaced.
Replaced ==
    IF lookup = <<>> THEN string
    ELSE ReplaceAll(string, lookup[1].long,
                    SelectShortcut(lookup[1].shortcuts), 0)

\* The index has one key, which occurs twice or more in the target, no two
\* occurrences overlapping.
RepeatedKey ==
    /\ Len(lookup) = 1
    /\ LET occ == Occurrences(string, lookup[1].long)
       IN /\ Cardinality(occ) >= 2
          /\ \A p1, p2 \in occ : p1 < p2 => p1 + Len(lookup[1].long) <= p2

\* The shortcut nodes built for the key at position k of the index.
NodesOfKey(k) ==
    { v \in Ids(g) : /\ v \notin {start, end} \cup Range(char_nodes)
                     /\ Value(g, v) = SelectShortcut(lookup[k].shortcuts) }

\* The node before position p of the target, and the node at position p.
Before(p) == IF p = 0 THEN start ELSE char_nodes[p]

At(p) == IF p = Len(string) THEN end ELSE char_nodes[p + 1]

\* The occurrences of key k a shortcut node is entered from, and those it
\* leaves to.
InOccurrences(v, k) ==
    { p \in Occurrences(string, lookup[k].long) : Before(p) \in PredSet(g, v) }

OutOccurrences(v, k) ==
    { p \in Occurrences(string, lookup[k].long) :
        At(p + Len(lookup[k].long)) \in SuccSet(g, v) }

----------------------------------------------------------------------------
(* The claims. *)

\* C1: the returned string, normalized under the mapped relation until
\* fixpoint, is the target again.
C1_RoundTrip == pc = "done" => Normalize(lookup, result) = string

\* C2: the length of the returned string is the fewest segments of a
\* partition of the target into kept characters and replaced keys.
C2_GlobalMinimality ==
    pc = "done" => Len(result) = MinSegments(string, lookup, 0)

\* C3: when the key of the index occurs at two or more non-overlapping
\* positions, shorten_optimal returns the target with each occurrence
\* replaced by the shortcut ("cabcabc" becomes "cxcxc").
C3_IndependentReplacement ==
    RepeatedKey ~> (pc = "done" /\ result = Replaced)

\* C4: shorten_optimal terminates: the queue empties and a string is
\* returned.
C4_Termination == <>(pc = "done")

\* C5: a key that occurs twice or more has one shortcut node per occurrence,
\* each entered from the node before its own occurrence and left to the
\* node after its own occurrence only.
C5_OccurrenceIsolation ==
    Constructed =>
        \A k \in DOMAIN lookup :
            LET occ == Occurrences(string, lookup[k].long)
            IN Cardinality(occ) >= 2 =>
                 /\ Cardinality(NodesOfKey(k)) = Cardinality(occ)
                 /\ \A v \in NodesOfKey(k) :
                       /\ Cardinality(InOccurrences(v, k)) = 1
                       /\ InOccurrences(v, k) = OutOccurrences(v, k)

\* C6: the graph has no directed cycle and no self-loop, after every
\* insertion.
C6_Acyclic == ~HasCycle(g)

C8_Identity == (pc = "done" /\ NoKeyOccurs) => result = string

\* A run that returns for a non-empty target and an index of several keys,
\* none of which occurs.
C8_Witness ==
    pc = "done" /\ NoKeyOccurs /\ Len(lookup) >= 2 /\ Len(string) >= 2

\* C9: for the empty target the graph is the one edge start -> end beside
\* isolated shortcut nodes, the search reaches end from start and empties
\* its queue, no KeyError is raised, and the empty string is returned.
C9_EmptyInput ==
    string = <<>> =>
        /\ pc # "KeyError"
        /\ Constructed =>
              /\ g.edges_from = Put(EmptyDict, start, <<end>>)
              /\ g.edges_to = Put(EmptyDict, end, <<start>>)
              /\ Len(g.nodes) = 2 + Len(lookup)
        /\ pc = "search" =>
              \/ q = <<start>> /\ DOMAIN dist = {start}
              \/ q = <<end>> /\ pred[end] = start
              \/ q = <<>> /\ pred[end] = start
        /\ pc \in {"reconstruct", "done"} => pred[end] = start /\ dist[end] = 1
        /\ pc = "done" => path = <<start, end>> /\ result = <<>>

\* A run that returns for the empty target and a non-empty index.
C9_Witness == pc = "done" /\ string = <<>> /\ Len(lookup) >= 1

\* C11: no step of shorten_optimal changes the index, and a request that
\* repeats a target against the reused index returns what the request
\* before returned.
C11_IndexUntouched ==
    [][/\ pc # "done" => lookup' = lookup
       /\ (pc = "reconstruct" /\ pc' = "done" /\ result # None)
             => result' = result]_vars

\* A repeated request, against an index of several keys whose shortcuts the
\* request before used, is about to return.
C11_Witness ==
    /\ pc = "reconstruct"
    /\ current = NoneId
    /\ result # None
    /\ result # string
    /\ Len(lookup) >= 2

\* A line of the table line format with status "mapped" and an output
\* that decodes.
MappedLine(line) ==
    /\ Matches(line)
    /\ line.state = "mapped"
    /\ line.mapping # NoGroup
    /\ \A j \in DOMAIN line.mapping : Int16(line.mapping[j]) <= MaxCodePoint

\* The facts of a mapped line are all in the dict.
HasFacts(ents, line) ==
    LET cps == CodePoints(line.chars)
    IN \A i \in DOMAIN cps :
         cps[i] \in DOMAIN ents /\ ents[cps[i]] = Decode(line.mapping)

\* A mapped line whose output codes cannot be decoded: a code that is no
\* hexadecimal number, or one beyond the last code point.
Undecodable(line) ==
    /\ Len(line.chars) \in {1, 2}
    /\ line.state = "mapped"
    /\ \E j \in DOMAIN line.mapping :
          \/ ~WellFormed(line.mapping[j])
          \/ Int16(line.mapping[j]) > MaxCodePoint

\* The fewest edges of a path of gr from a node of frontier to the node to,
\* counted from d; -1 when there is none.
RECURSIVE Layer(_, _, _, _, _)
Layer(gr, seen, frontier, to, d) ==
    IF to \in frontier THEN d
    ELSE IF frontier = {} THEN -1
    ELSE Layer(gr, seen \cup frontier,
               (UNION { SuccSet(gr, v) : v \in frontier })
                  \ (seen \cup frontier),
               to, d + 1)

ShortestDist(gr, from, to) == Layer(gr, {}, {from}, to, 0)

\* p is a path of gr from the node from to the node to.
IsPath(gr, p, from, to) ==
    /\ p # <<>>
    /\ p[1] = from
    /\ p[Len(p)] = to
    /\ \A i \in 1..(Len(p) - 1) : p[i + 1] \in SuccSet(gr, p[i])

\* C15: when shorten_optimal has returned, the reconstructed path is a path
\* of the built graph from start to end, and the number of its edges is
\* dist[end], the fewest edges of any such path.
C15_MinimumEdges ==
    pc = "done" =>
        /\ IsPath(g, path, start, end)
        /\ Len(path) - 1 = dist[end]
        /\ dist[end] = ShortestDist(g, start, end)

\* The returned path has two edges and emits three characters, while a path
\* of three edges of the graph emits two.
C15_Witness ==
    /\ pc = "done"
    /\ Len(path) - 1 = 2
    /\ result = LongShortcut
    /\ \E v, w \in Ids(g) :
          /\ IsPath(g, <<start, v, w, end>>, start, end)
          /\ Len(Value(g, v)) + Len(Value(g, w)) < Len(result)

\* The nodes an iteration of the search has put on the queue: what follows
\* the rest of the queue it started from.
Enqueued(before, after) == SubSeq(after, Len(before), Len(after))

\* C16: an iteration of the search puts on the queue only nodes that had not
\* been reached, each once; so every node is dequeued at most once.
C16_FinalizedOnFirstDequeue ==
    [][(pc = "search" /\ pc' = "search") =>
          LET added == Enqueued(q, q')
          IN \A i \in DOMAIN added :
               /\ added[i] \notin DOMAIN dist
               /\ \A j \in DOMAIN added : j # i => added[j] # added[i]]_vars

\* C17: during the search, what is recorded for a node is its fewest edges
\* from start, and no step changes the recorded distance or predecessor.
C17_RecordedStable ==
    [][pc = "search" =>
          \A v \in DOMAIN dist :
              /\ dist[v] = ShortestDist(g, start, v)
              /\ v \in DOMAIN dist' /\ dist'[v] = dist[v]
              /\ v \in DOMAIN pred' /\ pred'[v] = pred[v]]_vars

\* The node just expanded has visited a successor that had been recorded
\* from another node at the same distance.
C17_Witness ==
    /\ pc = "search"
    /\ current # NoneId
    /\ \E succ \in SuccSet(g, current) :
          /\ succ \in DOMAIN dist
          /\ dist[succ] = dist[current] + 1
          /\ pred[succ] # current

\* The pass-through chain start -> char_nodes[0] -> ... -> end is in the
\* graph, one node per character of the target.
ChainPresent ==
    /\ Len(char_nodes) = Len(string)
    /\ IsPath(g, <<start>> \o char_nodes \o <<end>>, start, end)

\* C18: from the insertion of end on, the chain is in the graph whatever
\* shortcut edges are added; no KeyError is raised; when the search is over
\* pred[end] is defined, and the path of a returned string runs from start
\* to end.
C18_EndReachable ==
    /\ pc \in {"shortcuts", "occurrences", "search", "reconstruct", "done"}
          => ChainPresent
    /\ pc # "KeyError"
    /\ pc \in {"reconstruct", "done"} => end \in DOMAIN pred
    /\ pc = "done" => IsPath(g, path, start, end)

\* A string has been returned from a graph with shortcut edges, along a path
\* that leaves the chain.
C18_Witness ==
    /\ pc = "done"
    /\ Len(string) >= 3
    /\ result # string
    /\ \E v \in Ids(g) : v > end /\ SuccSet(g, v) # {}

\* Every shortcut node carries the first shortcut of its key, and none of
\* the shortcuts tied after it. The shortcut nodes are those added after end,
\* one per key in the order of the index.
ShortcutNodesCarryFirst ==
    \A v \in Ids(g) :
        (end # NoneId /\ v > end) =>
            LET shortcuts == lookup[v - end].shortcuts
            IN /\ Value(g, v) = shortcuts[1]
               /\ \A j \in 2..Len(shortcuts) : Value(g, v) # shortcuts[j]

\* Every character of a returned string is a character of the target or of
\* the first shortcut of a key.
ResultFromFirsts ==
    pc = "done" =>
        \A i \in DOMAIN result :
            \/ result[i] \in Range(string)
            \/ \E k \in DOMAIN lookup :
                  result[i] \in Range(lookup[k].shortcuts[1])

\* C19: shortcut nodes carry the first shortcut of their key only, a
\* returned string is made of characters of the target and of first
\* shortcuts, and a request repeated after the shortcuts tied after the first
\* were changed returns what the request before returned.
C19_TieBreak ==
    [][/\ ShortcutNodesCarryFirst'
       /\ ResultFromFirsts'
       /\ (pc = "reconstruct" /\ pc' = "done" /\ result # None)
             => result' = result]_vars

\* The request repeated without the tie "w" of the first key is about to
\* return, along the shortcut node of that key.
C19_Witness ==
    /\ pc = "reconstruct"
    /\ current = NoneId
    /\ result # None
    /\ lookup # <<>>
    /\ Len(lookup[1].shortcuts) = 1
    /\ end + 1 \in Range(path)

\* C12: the returned facts hold one fact per code point of every mapped
\* line of the text, wherever the line stands, the first lines included.
C12_ParserComplete ==
    ppc = "done" =>
        \A i \in DOMAIN table :
            MappedLine(table[i]) => HasFacts(entries, table[i])

\* C13: parse_table never returns for a text with a mapped line whose output
\* cannot be decoded: it aborts, and does not skip the line.
C13_MalformedFatal ==
    ppc = "done" => \A i \in DOMAIN table : ~Undecodable(table[i])

\* C14: no step of optimize changes the reverse index, and a call that
\* follows another on the same reverse index returns the same optimized
\* index, keys and shortcut lists in the same order.
C14_Idempotent ==
    [][/\ reverse' = reverse
       /\ \A i, j \in DOMAIN returned' : returned'[i] = returned'[j]]_vars

\* Two calls have returned an index with a list of two shortcuts.
C14_Witness ==
    /\ opc = "done"
    /\ Len(returned) = 2
    /\ \E i \in DOMAIN returned[2] : Len(returned[2][i].shortcuts) = 2

\* What optimize is to return: the keys with a strictly shorter shortcut,
\* each with the strictly shorter shortcuts of minimal length, in order.
Shorter(e) == SelectSeq(e.shortcuts, LAMBDA sc : Len(sc) < Len(e.long))

Shortest(e) ==
    LET m == Min({ Len(sc) : sc \in Range(Shorter(e)) })
    IN SelectSeq(Shorter(e), LAMBDA sc : Len(sc) = m)

ExpectedOptimized(rev) ==
    { <<rev[i].long, Shortest(rev[i])>> :
        i \in { j \in DOMAIN rev : Shorter(rev[j]) # <<>> } }

AsMapping(d) == { <<d[i].long, d[i].shortcuts>> : i \in DOMAIN d }

\* C10: optimize returns exactly the keys that have a strictly shorter
\* shortcut, each with its strictly shorter shortcuts of minimal length in
\* first-seen order; no list is empty.
C10_OptimizerResult ==
    opc = "done" =>
        /\ AsMapping(optimized) = ExpectedOptimized(reverse)
        /\ Cardinality(AsMapping(optimized)) = Len(optimized)
        /\ \A i \in DOMAIN optimized : optimized[i].shortcuts # <<>>

\* optimize has returned after dropping a key, and after replacing a longer
\* shortcut of a kept key by a shorter one.
C10_Witness ==
    /\ opc = "done"
    /\ Len(optimized) < Len(reverse)
    /\ \E i \in DOMAIN reverse :
          /\ Len(Shorter(reverse[i])) = 2
          /\ Len(Shortest(reverse[i])) = 1
          /\ Shortest(reverse[i])[1] = reverse[i].shortcuts[2]

====
